---- MODULE Spec2Model ----
(***************************************************************************)
(* A model of cyan/tbhtypes/app_bundle.py (class AppBundle): the removal   *)
(* engine, the artifact enumerator and its cache, the mass operation       *)
(* driver, the encrypted-extension filter, the icon replacement and the    *)
(* extension injector.                                                     *)
(*                                                                         *)
(* Python strings are sequences of one-character strings, so that the      *)
(* substring test of remove(), str.endswith and the f-strings that build   *)
(* paths and load-command references are computed as the code computes     *)
(* them.  The file system is the set of paths that exist.                  *)
(***************************************************************************)
EXTENDS Integers, Sequences, FiniteSets, TLC

VARIABLES
  path,                \* self.path, the package root
  fs,                  \* the file system: the set of paths that exist
  plist,               \* self.plist, the main metadata document in memory
  plist_disk,          \* the main metadata document as last saved to Info.plist
  cached_executables,  \* self.cached_executables: None or Some(list of paths)
  encrypted,           \* the executables whose is_encrypted() is true
  sig,                 \* per executable file: its signature state
  cmds,                \* per executable file: the load commands persisted in it
  call,                \* the last operation invoked, with its arguments
  result,              \* what that operation returned or reported
  log,                 \* the collaborator calls that operation made, in order
  injections           \* how many times inject_all_extensions has run

vars == <<path, fs, plist, plist_disk, cached_executables, encrypted, sig,
          cmds, call, result, log, injections>>

(***************************************************************************)
(* Bounds of the model.                                                    *)
(***************************************************************************)
MaxNames == 2          \* remove() is called with at most this many names
MaxInjections == 1     \* inject_all_extensions runs at most this many times

(***************************************************************************)
(* Strings.                                                                *)
(***************************************************************************)
Slash == <<"/">>

\* Python `t in s` for strings: t occurs in s as a substring.
In(t, s) == \E i \in 0..(Len(s) - Len(t)) : SubSeq(s, i + 1, i + Len(t)) = t

\* str.endswith
endswith(s, suffix) ==
  /\ Len(s) >= Len(suffix)
  /\ SubSeq(s, Len(s) - Len(suffix) + 1, Len(s)) = suffix

startswith(s, prefix) ==
  /\ Len(s) >= Len(prefix)
  /\ SubSeq(s, 1, Len(prefix)) = prefix

\* f"{a}/{b}"
Join(a, b) == a \o Slash \o b

\* The path the operating system resolves a string to: repeated slashes
\* count as one and a trailing slash is dropped.
RECURSIVE Squeeze(_)
Squeeze(s) ==
  IF Len(s) < 2 THEN s
  ELSE IF s[1] = "/" /\ s[2] = "/" THEN Squeeze(Tail(s))
  ELSE <<s[1]>> \o Squeeze(Tail(s))

Norm(s) ==
  IF /\ \A i \in 1..(Len(s) - 1) : ~(s[i] = "/" /\ s[i + 1] = "/")
     /\ (Len(s) > 1 => s[Len(s)] # "/")
  THEN s
  ELSE LET q == Squeeze(s)
       IN IF Len(q) > 1 /\ q[Len(q)] = "/" THEN SubSeq(q, 1, Len(q) - 1) ELSE q

\* q lies below directory d
IsUnder(q, d) ==
  /\ Len(q) > Len(d) + 1
  /\ q[Len(d) + 1] = "/"
  /\ SubSeq(q, 1, Len(d)) = d

\* The path segments of s, split at "/".
RECURSIVE SplitFrom(_, _)
SplitFrom(s, cur) ==
  IF s = <<>> THEN <<cur>>
  ELSE IF Head(s) = "/" THEN <<cur>> \o SplitFrom(Tail(s), <<>>)
  ELSE SplitFrom(Tail(s), Append(cur, Head(s)))

Split(s) == SplitFrom(s, <<>>)

\* os.path.basename
basename(s) == LET parts == Split(s) IN parts[Len(parts)]

(***************************************************************************)
(* Names the code and the package layout use.                              *)
(***************************************************************************)
DotDylib     == <<".", "d", "y", "l", "i", "b">>
DotAppex     == <<".", "a", "p", "p", "e", "x">>
DotFramework == <<".", "f", "r", "a", "m", "e", "w", "o", "r", "k">>
sInfoPlist   == <<"I", "n", "f", "o", ".", "p", "l", "i", "s", "t">>
sEntitlements == <<"c", "y", "a", "n", ".", "e", "n", "t", "i", "t", "l", "e",
                   "m", "e", "n", "t", "s">>
sWatch       == <<"W", "a", "t", "c", "h">>
sWatchKit    == <<"W", "a", "t", "c", "h", "K", "i", "t">>
sWatchPlaceholder ==
  <<"c", "o", "m", ".", "a", "p", "p", "l", "e", ".", "W", "a", "t", "c", "h",
    "P", "l", "a", "c", "e", "h", "o", "l", "d", "e", "r">>
sExtensions  == <<"E", "x", "t", "e", "n", "s", "i", "o", "n", "s">>
sPlugIns     == <<"P", "l", "u", "g", "I", "n", "s">>
sFrameworks  == <<"F", "r", "a", "m", "e", "w", "o", "r", "k", "s">>
sRpath       == <<"@", "r", "p", "a", "t", "h", "/">>
sExecutablePathUp ==
  <<"@", "e", "x", "e", "c", "u", "t", "a", "b", "l", "e", "_", "p", "a", "t",
    "h", "/", ".", ".", "/", ".", ".", "/">>
UpUp         == <<".", ".", "/", ".", ".", "/">>

\* An Optional value is the empty set (None) or the set of its one value.
None == {}
Some(x) == {x}
Value(opt) == CHOOSE x \in opt : TRUE

(***************************************************************************)
(* The package tree.  The model's packages are built from these entries;   *)
(* an initial tree is the root, its metadata document and main executable, *)
(* plus any choice of the optional subtrees.                                *)
(***************************************************************************)
Root  == <<"/", "a">>
MainName == <<"m">>                       \* the CFBundleExecutable of the package

AppexA == Join(Join(Root, sExtensions), <<"A">> \o DotAppex)
AppexB == Join(Join(Root, sPlugIns), <<"B">> \o DotAppex)
AppexC == Join(Join(Root, sPlugIns), <<"C">> \o DotAppex)
AppexW == Join(Join(Root, sWatch), <<"W">> \o DotAppex)
DylibT == Join(Join(Root, sFrameworks), <<"t">> \o DotDylib)
FrameworkF == Join(Join(Root, sFrameworks), <<"F">> \o DotFramework)
\* an entry of the package whose relative name, x/a, holds the root's text
NameXA == <<"x", "/", "a">>
PkgX   == Join(Root, <<"x">>)
PkgXA  == Join(Root, NameXA)
\* the same relative name resolved against the working directory
CwdX   == <<"x">>
CwdXA  == NameXA

\* A bundle directory with its metadata document and its executable.
BundleTree(dir, exeName) == {dir, Join(dir, sInfoPlist), Join(dir, exeName)}

Base == BundleTree(Root, MainName)

TreeA == {Join(Root, sExtensions)} \cup BundleTree(AppexA, <<"A">>)
TreeB == {Join(Root, sPlugIns)} \cup BundleTree(AppexB, <<"B">>)
\* C.appex has lost its metadata document
TreeC == {Join(Root, sPlugIns), AppexC, Join(AppexC, <<"C">>)}
TreeW == {Join(Root, sWatch)} \cup BundleTree(AppexW, <<"W">>)
TreeT == {Join(Root, sFrameworks), DylibT}
TreeF == {Join(Root, sFrameworks)} \cup BundleTree(FrameworkF, <<"F">>)
TreePkgX == {PkgX, PkgXA}
TreeCwdX == {CwdX, CwdXA}

\* The declared executable name (CFBundleExecutable) in a bundle's
\* metadata document.
DeclaredExecutable(dir) ==
  IF dir = Root THEN MainName
  ELSE LET b == basename(dir)
       IN SubSeq(b, 1, 1)

\* Every executable file of the model.
MainExe == Join(Root, MainName)
ExeOf(dir) == Join(dir, DeclaredExecutable(dir))
Bundles == {AppexA, AppexB, AppexC, AppexW, FrameworkF}
Executables == {MainExe, DylibT} \cup {ExeOf(d) : d \in Bundles}

(***************************************************************************)
(* The file system.                                                        *)
(***************************************************************************)
\* os.path.exists
exists(f, p) == Norm(p) \in f

\* shutil.rmtree(p), or os.remove(p) when p is not a directory: p and
\* everything below it are gone.
rmtree(f, p) == LET n == Norm(p) IN {q \in f : q # n /\ ~IsUnder(q, n)}

(***************************************************************************)
(* AppBundle.remove                                                        *)
(***************************************************************************)
\* The path remove() deletes for a name.
ResolveName(root, name) ==
  IF In(root, name) THEN name ELSE Join(root, name)

RECURSIVE removeLoop(_, _, _, _)
removeLoop(root, names, f, existed) ==
  IF names = <<>> THEN [fs |-> f, existed |-> existed]
  ELSE LET p == ResolveName(root, Head(names))
       IN IF ~exists(f, p)
          THEN removeLoop(root, Tail(names), f, existed)
          ELSE removeLoop(root, Tail(names), rmtree(f, p), TRUE)

\* A remove() that sets `existed` before it looks whether the path exists.
removeEager(root, names, f) ==
  [removeLoop(root, names, f, FALSE) EXCEPT !.existed = (names # <<>>)]

\* remove(*names): the file system afterwards and the value returned.
remove(root, names, f) == removeLoop(root, names, f, FALSE)

(***************************************************************************)
(* glob.  A "*" does not match a name that starts with a dot, and "**"     *)
(* does not descend into such a directory.  The order of the matches is    *)
(* that of the directory listing, which nothing fixes: every order is      *)
(* possible.                                                               *)
(***************************************************************************)
\* The segments of p below directory d.
Below(p, d) == Split(SubSeq(p, Len(d) + 2, Len(p)))

Hidden(seg) == seg # <<>> /\ seg[1] = "."

Visible(segs) == \A i \in 1..Len(segs) : segs[i] # <<>> /\ ~Hidden(segs[i])

\* glob(f"{d}/**/*{suffix}", recursive=True)
GlobRecursive(f, d, suffix) ==
  {p \in f : /\ IsUnder(p, d)
             /\ Visible(Below(p, d))
             /\ endswith(p, suffix)}

\* glob(f"{d}/*{suffix}")
GlobIn(f, d, suffix) ==
  {p \in f : /\ IsUnder(p, d)
             /\ Len(Below(p, d)) = 1
             /\ Visible(Below(p, d))
             /\ endswith(p, suffix)}

\* glob(f"{d}/*/*{suffix}")
GlobOneLevel(f, d, suffix) ==
  {p \in f : /\ IsUnder(p, d)
             /\ Len(Below(p, d)) = 2
             /\ Visible(Below(p, d))
             /\ endswith(p, suffix)}

\* The lists that hold every element of S once.
Orderings(S) ==
  {q \in [1..Cardinality(S) -> S] : \A i, j \in DOMAIN q : i # j => q[i] # q[j]}

\* An enumerator that finds the dylibs only.
get_dylibs_only(f, root) == Orderings(GlobRecursive(f, root, DotDylib))

\* AppBundle.get_executables: the lists it may return
get_executables(f, root) ==
  {a \o b \o c : a \in Orderings(GlobRecursive(f, root, DotDylib)),
                 b \in Orderings(GlobRecursive(f, root, DotAppex)),
                 c \in Orderings(GlobRecursive(f, root, DotFramework))}

\* AppBundle.get_all_appex: the lists it may return
get_all_appex(f, root) ==
  {a \o b : a \in Orderings(GlobIn(f, Join(root, sExtensions), DotAppex)),
            b \in Orderings(GlobIn(f, Join(root, sPlugIns), DotAppex))}

(***************************************************************************)
(* The collaborators: the metadata document reader and the executable.     *)
(***************************************************************************)
\* Plist(p) can be read: the document is there.  Reading one that is not
\* raises.
PlistReadable(f, p) == exists(f, p)

\* AppBundle(dir) can be constructed: its Info.plist is read and names an
\* executable.
CanConstruct(f, dir) == PlistReadable(f, Join(dir, sInfoPlist))

\* Executable.is_encrypted()
is_encrypted(enc, exe) == exe \in enc

\* One collaborator call, as the log records it: the operation, the file or
\* bundle it acts on, its argument and what it returned ("True", "False")
\* or that it raised ("raise").
Event(op, target, arg, ret) ==
  [op |-> op, target |-> target, arg |-> arg, ret |-> ret]

Ret(b) == IF b THEN "True" ELSE "False"

\* The signature a capability leaves on an executable it succeeded on.
SigAfter(func, old) == IF func = "fakesign" THEN "fake" ELSE old

(***************************************************************************)
(* AppBundle.mass_operate                                                  *)
(***************************************************************************)
\* A driver that counts the main executable whatever its call returned.
MainCountAlways(mainOk) == 1

\* The count mass_operate starts from, given the main executable's result.
MainCount(mainOk) == IF mainOk THEN 1 ELSE 0

\* A reader that never fails on a nested metadata document.
NestedPlistTolerated(f, ts) == FALSE

\* Plist(f"{ts}/Info.plist") raises: the nested document cannot be read.
NestedPlistUnreadable(f, ts) == ~PlistReadable(f, Join(ts, sInfoPlist))

\* The loop over the cached artifacts, from the i-th on.  st holds the
\* count, the signatures, the log and whether an error was raised.
RECURSIVE massLoop(_, _, _, _, _, _)
massLoop(cache, i, f, func, outcome, st) ==
  IF i > Len(cache) THEN st
  ELSE
    LET ts == cache[i]
    IN IF endswith(ts, DotDylib)
       THEN massLoop(cache, i + 1, f, func, outcome,
              [st EXCEPT !.count = IF outcome[i] THEN @ + 1 ELSE @,
                         !.sig = IF outcome[i] /\ ts \in DOMAIN @
                                 THEN [@ EXCEPT ![ts] = SigAfter(func, @)]
                                 ELSE @,
                         !.log = Append(@, Event(func, ts, ts, Ret(outcome[i])))])
       ELSE IF NestedPlistUnreadable(f, ts)
       THEN [st EXCEPT !.raised = TRUE,
                       !.log = Append(@, Event("Plist", Join(ts, sInfoPlist), ts, "raise"))]
       ELSE
         LET exe == Join(ts, DeclaredExecutable(ts))
         IN massLoop(cache, i + 1, f, func, outcome,
              [st EXCEPT !.count = IF outcome[i] THEN @ + 1 ELSE @,
                         !.sig = IF outcome[i] /\ exe \in DOMAIN @
                                 THEN [@ EXCEPT ![exe] = SigAfter(func, @)]
                                 ELSE @,
                         !.log = Append(@, Event(func, exe, ts, Ret(outcome[i])))])

\* A driver that gives up when the main executable's call fails.
mass_operateMainGate(cache, f, func, mainOk, outcome, sg) ==
  LET st == [count |-> MainCount(mainOk),
             sig |-> IF mainOk THEN [sg EXCEPT ![MainExe] = SigAfter(func, @)]
                     ELSE sg,
             log |-> <<Event(func, MainExe, MainExe, Ret(mainOk))>>,
             raised |-> FALSE]
  IN IF mainOk THEN massLoop(cache, 1, f, func, outcome, st) ELSE st

\* mass_operate on a populated cache: mainOk and outcome[i] are what the
\* capability returns for the main executable and for the i-th artifact.
mass_operate(cache, f, func, mainOk, outcome, sg) ==
  massLoop(cache, 1, f, func, outcome,
           [count |-> MainCount(mainOk),
            sig |-> IF mainOk THEN [sg EXCEPT ![MainExe] = SigAfter(func, @)]
                    ELSE sg,
            log |-> <<Event(func, MainExe, MainExe, Ret(mainOk))>>,
            raised |-> FALSE])

\* A cache test that takes an empty list for an unpopulated cache.
CacheUnsetOrEmpty(cache) == cache = None \/ cache = Some(<<>>)

\* `self.cached_executables is None`
CacheUnset(cache) == cache = None

(***************************************************************************)
(* AppBundle.remove_encrypted_extensions                                   *)
(***************************************************************************)
\* The loop over the globbed plugins.  st holds the file system, the
\* removed list, the log and whether an error was raised.
RECURSIVE encLoop(_, _, _, _)
encLoop(root, plugins, enc, st) ==
  IF plugins = <<>> THEN st
  ELSE
    LET plugin == Head(plugins)
    IN IF ~CanConstruct(st.fs, plugin)
       THEN [st EXCEPT !.raised = TRUE,
                       !.log = Append(@, Event("AppBundle", plugin, <<>>, "raise"))]
       ELSE
         LET exe == ExeOf(plugin)
             hit == is_encrypted(enc, exe)
             s1  == [st EXCEPT
                       !.log = Append(@, Event("is_encrypted", exe, <<>>, Ret(hit)))]
         IN IF hit
            THEN encLoop(root, Tail(plugins), enc,
                   [s1 EXCEPT !.fs = remove(root, <<plugin>>, @).fs,
                              !.removed = Append(@, basename(exe))])
            ELSE encLoop(root, Tail(plugins), enc, s1)

\* remove_encrypted_extensions over the list its glob returned.
remove_encrypted_extensions(root, plugins, enc, f) ==
  encLoop(root, plugins, enc,
          [fs |-> f, removed |-> <<>>, log |-> <<>>, raised |-> FALSE])

(***************************************************************************)
(* AppBundle.change_icon                                                   *)
(***************************************************************************)
\* A dictionary update that drops what was there.
Replace(d, e) == e

\* Python `d | e` for dictionaries: e's keys win.
Merge(d, e) == [k \in DOMAIN d \cup DOMAIN e |-> IF k \in DOMAIN e THEN e[k] ELSE d[k]]

\* self.plist[k] = v
SetKey(d, k, v) == [x \in DOMAIN d \cup {k} |-> IF x = k THEN v ELSE d[x]]

EmptyDict == [k \in {} |-> 0]

sCyan   == <<"c", "y", "a", "n", "_">>
s60x60  == <<"6", "0", "x", "6", "0">>
s76x76  == <<"7", "6", "x", "7", "6">>
sAt2xPng == <<"@", "2", "x", ".", "p", "n", "g">>
sAt2xIpadPng == <<"@", "2", "x", "~", "i", "p", "a", "d", ".", "p", "n", "g">>
sIconPng == <<"i", "c", "o", "n", ".", "p", "n", "g">>

\* f"cyan_{uuid4().hex[:7]}a"
IconUid(hex) == sCyan \o hex \o <<"a">>

PrimaryIcon(files, uid) == [CFBundleIconFiles |-> files, CFBundleIconName |-> uid]

\* The metadata document after the two icon-declaration keys are written.
IconPlist(doc, uid) ==
  LET i60 == uid \o s60x60
      i76 == uid \o s76x76
      d1  == IF "CFBundleIcons" \notin DOMAIN doc
             THEN SetKey(doc, "CFBundleIcons", EmptyDict) ELSE doc
      d2  == IF "CFBundleIcons~ipad" \notin DOMAIN d1
             THEN SetKey(d1, "CFBundleIcons~ipad", EmptyDict) ELSE d1
      d3  == SetKey(d2, "CFBundleIcons",
               Merge(d2["CFBundleIcons"],
                     [k \in {"CFBundlePrimaryIcon"} |-> PrimaryIcon(<<i60>>, uid)]))
  IN SetKey(d3, "CFBundleIcons~ipad",
       Merge(d3["CFBundleIcons~ipad"],
             [k \in {"CFBundlePrimaryIcon"} |-> PrimaryIcon(<<i60, i76>>, uid)]))

\* The two derived images written into the package root.
IconFiles(root, uid) ==
  {Join(root, uid \o s60x60 \o sAt2xPng), Join(root, uid \o s76x76 \o sAt2xIpadPng)}

(***************************************************************************)
(* AppBundle._inject_into_extension and AppBundle.inject_all_extensions    *)
(*                                                                         *)
(* st holds the file system, the signatures, the persisted load commands,  *)
(* the log and whether an error was raised.  `fail` names the primitive    *)
(* that raises for this extension ("none": none does).                     *)
(***************************************************************************)
\* A test that takes any key that mentions the suffix.
MentionsDylib(k) == In(DotDylib, k)

\* k.endswith(".dylib")
IsDylib(k) == endswith(k, DotDylib)

\* dylibs_to_inject: the keys of the tweak set that end in ".dylib"
dylibs_to_inject(tweaks) == SelectSeq(tweaks, IsDylib)

\* A reference builder that ignores the path strategy.
ReferenceRpathOnly(dylib_name, inject_to_path) == sRpath \o dylib_name

\* The load-command reference for a dylib under the chosen path strategy.
Reference(dylib_name, inject_to_path) ==
  IF inject_to_path THEN sExecutablePathUp \o dylib_name
  ELSE sRpath \o dylib_name

Logged(st, op, target, arg, ret) ==
  [st EXCEPT !.log = Append(@, Event(op, target, arg, ret))]

Raise(st, op, target, arg) ==
  [Logged(st, op, target, arg, "raise") EXCEPT !.raised = TRUE]

\* The loop of inj_func calls: the references accumulate in the
\* executable object (inj) and reach the file only when written.
RECURSIVE injLoop(_, _, _, _, _, _)
injLoop(dylibs, inject_to_path, exe, fail, inj, st) ==
  IF dylibs = <<>> THEN [st |-> st, inj |-> inj]
  ELSE
    LET ref == Reference(Head(dylibs), inject_to_path)
    IN IF fail = "inj_func" /\ Len(dylibs) = 1
       THEN [st |-> Raise(st, "inj_func", exe, ref), inj |-> inj]
       ELSE injLoop(Tail(dylibs), inject_to_path, exe, fail,
                    Some((IF inj = None THEN <<>> ELSE Value(inj)) \o <<ref>>),
                    Logged(st, "inj_func", exe, ref, "True"))

\* A tail that signs the file first and flushes the appended load commands
\* afterwards.
AfterInjectSignFirst(appex, exe, ent, has_entitlements, fail, r) ==
  IF r.st.raised THEN r.st
  ELSE
    LET s4 == IF has_entitlements
              THEN [Logged(r.st, "sign_with_entitlements", exe, ent, "True")
                      EXCEPT !.sig[exe] = "entitlements"]
              ELSE r.st
        s5 == IF r.inj # None
              THEN [Logged(s4, "write", exe, <<>>, "True")
                      EXCEPT !.cmds[exe] = @ \o Value(r.inj)]
              ELSE s4
    IN Logged(s5, "injected", appex, <<>>, "True")

\* A tail that signs whatever the entitlement extraction reported.
AfterInjectAlwaysSign(appex, exe, ent, has_entitlements, fail, r) ==
  IF r.st.raised THEN r.st
  ELSE
    LET s5 == IF r.inj # None
              THEN [Logged(r.st, "write", exe, <<>>, "True")
                      EXCEPT !.cmds[exe] = @ \o Value(r.inj)]
              ELSE r.st
    IN Logged([Logged(s5, "sign_with_entitlements", exe, ent, "True")
                 EXCEPT !.sig[exe] = "entitlements"],
              "injected", appex, <<>>, "True")

\* What follows the inj_func loop: the flush and the signing.
AfterInject(appex, exe, ent, has_entitlements, fail, r) ==
  IF r.st.raised THEN r.st
  ELSE IF r.inj # None /\ fail = "write" THEN Raise(r.st, "write", exe, <<>>)
  ELSE
    LET s5 == IF r.inj # None
              THEN [Logged(r.st, "write", exe, <<>>, "True")
                      EXCEPT !.cmds[exe] = @ \o Value(r.inj)]
              ELSE r.st
    IN IF ~has_entitlements THEN Logged(s5, "injected", appex, <<>>, "True")
       ELSE IF fail = "sign_with_entitlements"
       THEN Raise(s5, "sign_with_entitlements", exe, ent)
       ELSE Logged([Logged(s5, "sign_with_entitlements", exe, ent, "True")
                      EXCEPT !.sig[exe] = "entitlements"],
                   "injected", appex, <<>>, "True")

\* A gate that lets every extension through.
SkipsNone(hit, dylibs) == FALSE

\* The gate and the filter: the extension is left alone when its executable
\* is encrypted or no key of the tweak set ends in ".dylib".
Skips(hit, dylibs) == hit \/ dylibs = <<>>

\* An injector that appends the load commands to an executable whose
\* entitlements were not extracted and whose signature is still in place.
inject_unstripped(st, appex, tweaks, inject_to_path, enc, has_entitlements, fail) ==
  LET exe == ExeOf(appex)
      s1  == Logged(st, "is_encrypted", exe, <<>>, Ret(is_encrypted(enc, exe)))
  IN AfterInject(appex, exe, Join(appex, sEntitlements), has_entitlements, fail,
       injLoop(dylibs_to_inject(tweaks), inject_to_path, exe, fail, None, s1))

inject_into_extension(st, appex, tweaks, inject_to_path, enc, has_entitlements, fail) ==
  IF ~CanConstruct(st.fs, appex)
  THEN Logged(st, "skip_unreadable", appex, <<>>, "True")
  ELSE
    LET exe == ExeOf(appex)
        ent == Join(appex, sEntitlements)
    IN IF fail = "is_encrypted" THEN Raise(st, "is_encrypted", exe, <<>>)
       ELSE
         LET hit == is_encrypted(enc, exe)
             s1  == Logged(st, "is_encrypted", exe, <<>>, Ret(hit))
             dylibs == dylibs_to_inject(tweaks)
         IN IF Skips(hit, dylibs) THEN s1
            ELSE IF fail = "write_entitlements"
            THEN Raise(s1, "write_entitlements", exe, ent)
            ELSE
              LET s2 == [Logged(s1, "write_entitlements", exe, ent,
                                Ret(has_entitlements))
                           EXCEPT !.fs = IF has_entitlements THEN @ \cup {ent} ELSE @]
              IN IF fail = "remove_signature"
                 THEN Raise(s2, "remove_signature", exe, <<>>)
                 ELSE
                   LET s3 == [Logged(s2, "remove_signature", exe, <<>>, "True")
                                EXCEPT !.sig[exe] = "none"]
                   IN AfterInject(appex, exe, ent, has_entitlements, fail,
                        injLoop(dylibs, inject_to_path, exe, fail, None, s3))

\* The primitives of the extension injector that may raise.
Primitives == {"is_encrypted", "write_entitlements", "remove_signature",
               "inj_func", "write", "sign_with_entitlements"}

\* The loop of inject_all_extensions over appex_list, from the i-th on.
\* An error raised for one extension leaves the loop.
RECURSIVE extLoop(_, _, _, _, _, _, _, _)
extLoop(appex_list, i, tweaks, inject_to_path, enc, entitled, fault, st) ==
  IF i > Len(appex_list) \/ st.raised THEN st
  ELSE extLoop(appex_list, i + 1, tweaks, inject_to_path, enc, entitled, fault,
         inject_into_extension(st, appex_list[i], tweaks, inject_to_path, enc,
           appex_list[i] \in entitled,
           IF fault.ext = i THEN fault.step ELSE "none"))

\* A driver that goes to the extensions without injecting into the main
\* executable.
inject_extensions_only(st, appex_list, tweaks, inject_to_path, inject_all, enc, entitled, fault) ==
  IF ~inject_all THEN st
  ELSE IF appex_list = <<>> THEN Logged(st, "no_extensions", Root, <<>>, "True")
  ELSE extLoop(appex_list, 1, tweaks, inject_to_path, enc, entitled, fault, st)

\* inject_all_extensions: appex_list is what get_all_appex returned,
\* `entitled` the extensions whose executable has entitlements, `fault`
\* the primitive call that raises, if any.
inject_all_extensions(st, appex_list, tweaks, inject_to_path, inject_all, enc, entitled, fault) ==
  LET s0 == Logged(st, "inject", MainExe, <<>>, "True")
  IN IF ~inject_all THEN s0
     ELSE IF appex_list = <<>> THEN Logged(s0, "no_extensions", Root, <<>>, "True")
     ELSE extLoop(appex_list, 1, tweaks, inject_to_path, enc, entitled, fault, s0)

(***************************************************************************)
(* The inputs the operations are called with.                              *)
(***************************************************************************)
\* Names given to remove(): the names the code itself passes, a nested
\* relative name, an absolute path inside the package, the empty name, and
\* a relative name in which the root's text occurs.
Names == {sPlugIns, Join(sPlugIns, <<"B">> \o DotAppex), AppexB, <<>>, NameXA}

NameLists == UNION {[1..n -> Names] : n \in 0..MaxNames}

\* Keys of the tweak sets: file names.
KeyT == <<"t">> \o DotDylib
KeyU == <<"u">> \o DotDylib
KeyF == <<"F">> \o DotFramework
KeyD == <<"d", ".", "d", "e", "b">>
KeyBak == <<"v">> \o DotDylib \o <<".", "b", "a", "k">>
KeyDots == <<".", ".">> \o DotDylib

\* A tweak set is a dictionary; its keys in insertion order.
TweakSets == {<<>>, <<KeyD, KeyBak>>, <<KeyF, KeyT>>, <<KeyDots, KeyU>>}

NoFault == [ext |-> 0, step |-> "none"]

Hexes == {<<"0", "0", "0", "0", "0", "0", "0">>,
          <<"f", "f", "f", "f", "f", "f", "f">>}

TmpDir == <<"/", "t">>

NoCall ==
  [op |-> "new", names |-> <<>>, again |-> FALSE, prior |-> FALSE,
   func |-> "", mainOk |-> FALSE, listed |-> <<>>,
   tweaks |-> <<>>, inject_to_path |-> FALSE, inject_all |-> FALSE,
   entitled |-> {}, fault |-> NoFault, uid |-> <<>>]

NoResult ==
  [raised |-> FALSE, existed |-> FALSE, count |-> -1, removed |-> <<>>,
   message |-> ""]

(***************************************************************************)
(* The operations.                                                         *)
(***************************************************************************)
Remove(names) ==
  LET r == remove(path, names, fs)
  IN /\ fs' = r.fs
     /\ call' = [NoCall EXCEPT !.op = "remove", !.names = names,
                   !.again = (call.op = "remove" /\ call.names = names),
                   !.prior = result.existed]
     /\ result' = [NoResult EXCEPT !.existed = r.existed]
     /\ log' = <<>>
     /\ UNCHANGED <<injections, path, plist, plist_disk, cached_executables, encrypted,
                    sig, cmds>>

RemoveNames == \E names \in NameLists : Remove(names)

RemoveWatchApps ==
  LET r == remove(path, <<sWatch, sWatchKit, sWatchPlaceholder>>, fs)
  IN /\ fs' = r.fs
     /\ call' = [NoCall EXCEPT !.op = "remove_watch_apps"]
     /\ result' = [NoResult EXCEPT
                     !.existed = r.existed,
                     !.message = IF r.existed THEN "[*] removed watch app"
                                 ELSE "[?] watch app not present"]
     /\ log' = <<>>
     /\ UNCHANGED <<injections, path, plist, plist_disk, cached_executables, encrypted,
                    sig, cmds>>

RemoveAllExtensions ==
  LET r == remove(path, <<sExtensions, sPlugIns>>, fs)
  IN /\ fs' = r.fs
     /\ call' = [NoCall EXCEPT !.op = "remove_all_extensions"]
     /\ result' = [NoResult EXCEPT
                     !.existed = r.existed,
                     !.message = IF r.existed THEN "[*] removed app extensions"
                                 ELSE "[?] no app extensions"]
     /\ log' = <<>>
     /\ UNCHANGED <<injections, path, plist, plist_disk, cached_executables, encrypted,
                    sig, cmds>>

MassOperate(op, func) ==
  \E list \in (IF CacheUnset(cached_executables) THEN get_executables(fs, path)
               ELSE {Value(cached_executables)}) :
    \E mainOk \in BOOLEAN, outcome \in [1..Len(list) -> BOOLEAN] :
      LET r == mass_operate(list, fs, func, mainOk, outcome, sig)
      IN /\ cached_executables' = Some(list)
         /\ sig' = r.sig
         /\ log' = r.log
         /\ call' = [NoCall EXCEPT !.op = "mass_operate", !.func = func,
                       !.mainOk = mainOk, !.listed = list]
         /\ result' = IF r.raised THEN [NoResult EXCEPT !.raised = TRUE]
                      ELSE [NoResult EXCEPT !.count = r.count, !.message = op]
         /\ UNCHANGED <<injections, path, fs, plist, plist_disk, encrypted, cmds>>

FakesignAll == MassOperate("fakesigned", "fakesign")

ThinAll == MassOperate("thinned", "thin")

RemoveEncryptedExtensions ==
  \E plugins \in Orderings(GlobOneLevel(fs, path, DotAppex)) :
    LET r == remove_encrypted_extensions(path, plugins, encrypted, fs)
    IN /\ fs' = r.fs
       /\ log' = r.log
       /\ call' = [NoCall EXCEPT !.op = "remove_encrypted_extensions",
                     !.listed = plugins]
       /\ result' = IF r.raised
                    THEN [NoResult EXCEPT !.raised = TRUE, !.removed = r.removed]
                    ELSE [NoResult EXCEPT
                            !.removed = r.removed,
                            !.message = IF Len(r.removed) = 0
                                        THEN "[?] no encrypted plugins"
                                        ELSE "[*] removed encrypted plugins:"]
       /\ UNCHANGED <<injections, path, plist, plist_disk, cached_executables, encrypted,
                      sig, cmds>>

\* change_icon.  pil: pillow can be imported; isPng: the source path ends
\* in ".png"; imageOk: the image library can open the image; hex: the
\* seven hexadecimal digits uuid4 gives.
ChangeIcon ==
  \E pil \in BOOLEAN, isPng \in BOOLEAN, imageOk \in BOOLEAN, hex \in Hexes :
    LET uid == IconUid(hex)
    IN /\ log' = <<>>
       /\ UNCHANGED <<injections, path, cached_executables, encrypted, sig, cmds>>
       /\ IF ~pil
          THEN /\ call' = [NoCall EXCEPT !.op = "change_icon"]
               /\ result' = [NoResult EXCEPT
                    !.message = "[?] pillow is not installed, -k is not available"]
               /\ UNCHANGED <<fs, plist, plist_disk>>
          ELSE IF ~imageOk
          THEN /\ call' = [NoCall EXCEPT !.op = "change_icon"]
               /\ result' = [NoResult EXCEPT !.raised = TRUE]
               /\ fs' = IF isPng THEN fs \cup {Join(TmpDir, sIconPng)} ELSE fs
               /\ UNCHANGED <<plist, plist_disk>>
          ELSE /\ call' = [NoCall EXCEPT !.op = "change_icon", !.uid = uid]
               /\ result' = [NoResult EXCEPT !.message = "[*] updated app icon"]
               /\ fs' = fs \cup {Join(TmpDir, sIconPng)} \cup IconFiles(path, uid)
               /\ plist' = IconPlist(plist, uid)
               /\ plist_disk' = plist'

\* The inputs of an inject_all_extensions run over appex_list that change
\* what it does: `entitled`, the extensions whose executable has
\* entitlements, among those whose entitlements are asked for; `fault`,
\* the primitive call that raises, among the calls the run can reach.
Constructible(appex_list) ==
  {i \in DOMAIN appex_list : CanConstruct(fs, appex_list[i])}

Candidates(appex_list, tweaks) ==
  IF dylibs_to_inject(tweaks) = <<>> THEN {}
  ELSE {i \in Constructible(appex_list) :
          ~is_encrypted(encrypted, ExeOf(appex_list[i]))}

Faults(appex_list, tweaks) ==
  {NoFault}
    \cup [ext : Constructible(appex_list), step : {"is_encrypted"}]
    \cup [ext : Candidates(appex_list, tweaks),
          step : Primitives \ {"is_encrypted"}]

\* The extensions whose entitlements the run gets to ask for and obtain
\* before `fault` stops it.
Asked(appex_list, tweaks, fault) ==
  IF fault = NoFault THEN Candidates(appex_list, tweaks)
  ELSE {i \in Candidates(appex_list, tweaks) :
          \/ i < fault.ext
          \/ i = fault.ext /\ fault.step \notin {"is_encrypted", "write_entitlements"}}

InjectAllExtensions ==
  /\ injections < MaxInjections
  /\ \E tweaks \in TweakSets, inject_to_path \in BOOLEAN, inject_all \in BOOLEAN :
      \E appex_list \in (IF inject_all THEN get_all_appex(fs, path) ELSE {<<>>}) :
        \E fault \in Faults(appex_list, tweaks) :
          \E entitled \in SUBSET {appex_list[i] : i \in Asked(appex_list, tweaks, fault)} :
            LET r == inject_all_extensions(
                       [fs |-> fs, sig |-> sig, cmds |-> cmds, log |-> <<>>,
                        raised |-> FALSE],
                       appex_list, tweaks, inject_to_path, inject_all,
                       encrypted, entitled, fault)
            IN \* signing is reached only for an executable with entitlements
               /\ fault # NoFault /\ fault.step = "sign_with_entitlements"
                    => appex_list[fault.ext] \in entitled
               /\ injections' = injections + 1
               /\ fs' = r.fs
               /\ sig' = r.sig
               /\ cmds' = r.cmds
               /\ log' = r.log
               /\ call' = [NoCall EXCEPT !.op = "inject_all_extensions",
                             !.tweaks = tweaks, !.inject_to_path = inject_to_path,
                             !.inject_all = inject_all, !.listed = appex_list,
                             !.entitled = entitled, !.fault = fault]
               /\ result' = [NoResult EXCEPT !.raised = r.raised]
               /\ UNCHANGED <<path, plist, plist_disk, cached_executables, encrypted>>

\* Something other than this object adds files to the tree.
AddableTrees == {TreeT, TreeB}

AddFiles ==
  \E tree \in AddableTrees :
    /\ fs' = fs \cup tree
    /\ call' = [NoCall EXCEPT !.op = "files_added"]
    /\ result' = NoResult
    /\ log' = <<>>
    /\ UNCHANGED <<injections, path, plist, plist_disk, cached_executables, encrypted,
                   sig, cmds>>

(***************************************************************************)
(* Initial states: a package just constructed over a tree on disk.         *)
(***************************************************************************)
OldIcon == <<"o", "l", "d">>

PlistPlain ==
  [k \in {"CFBundleExecutable", "CFBundleName"} |->
     IF k = "CFBundleExecutable" THEN MainName ELSE <<"n">>]

IconsOld ==
  [k \in {"CFBundlePrimaryIcon", "CFBundleAlternateIcons"} |->
     IF k = "CFBundlePrimaryIcon" THEN PrimaryIcon(<<OldIcon>>, OldIcon)
     ELSE PrimaryIcon(<<OldIcon, OldIcon>>, <<"a", "l", "t">>)]

IconsIpadOld ==
  [k \in {"UINewsstandIcon"} |-> PrimaryIcon(<<OldIcon>>, <<"n", "e", "w", "s">>)]

PlistIcons == SetKey(PlistPlain, "CFBundleIcons", IconsOld)

PlistBoth == SetKey(PlistIcons, "CFBundleIcons~ipad", IconsIpadOld)

Plists == {PlistPlain, PlistIcons, PlistBoth}

\* The appex bundles of the model and the trees that hold them.
InitWith(trees, docs, encs) ==
  /\ path = Root
  /\ fs \in {Base \cup UNION chosen : chosen \in SUBSET trees}
  /\ plist \in docs
  /\ plist_disk = plist
  /\ cached_executables = None
  /\ encrypted \in SUBSET encs
  /\ sig = [e \in Executables |-> "original"]
  /\ cmds = [e \in Executables |-> <<>>]
  /\ call = NoCall
  /\ result = NoResult
  /\ log = <<>>
  /\ injections = 0

Init ==
  InitWith({TreeA, TreeB, TreeC, TreeW, TreeT, TreeF, TreePkgX, TreeCwdX},
           Plists, {ExeOf(AppexA), ExeOf(AppexB), ExeOf(AppexW)})

Next ==
  \/ RemoveNames
  \/ RemoveWatchApps
  \/ RemoveAllExtensions
  \/ FakesignAll
  \/ ThinAll
  \/ RemoveEncryptedExtensions
  \/ ChangeIcon
  \/ InjectAllExtensions
  \/ AddFiles

Spec == Init /\ [][Next]_vars

\* The removal engine alone.
InitRemove == InitWith({TreeB, TreePkgX, TreeCwdX}, {PlistPlain}, {})

NextRemove == RemoveNames \/ RemoveWatchApps \/ RemoveAllExtensions

SpecRemove == InitRemove /\ [][NextRemove]_vars

\* The mass operation driver, with operations that change the tree.
InitMass == InitWith({TreeT, TreeA}, {PlistPlain}, {})

NextMass == FakesignAll \/ ThinAll \/ AddFiles \/ RemoveAllExtensions

SpecMass == InitMass /\ [][NextMass]_vars

\* The extension injector alone.
InitInject == InitWith({TreeA, TreeB \cup TreeC}, {PlistPlain}, {ExeOf(AppexA)})

NextInject == InjectAllExtensions

SpecInject == InitInject /\ [][NextInject]_vars

\* The encrypted-extension filter alone.
InitEnc ==
  InitWith({TreeA, TreeB, TreeC, TreeW}, {PlistPlain},
           {ExeOf(AppexA), ExeOf(AppexB), ExeOf(AppexW)})

NextEnc == RemoveEncryptedExtensions

SpecEnc == InitEnc /\ [][NextEnc]_vars

\* The icon replacement, on packages with and without watch apps.
InitIcon == InitWith({TreeW}, Plists, {})

NextIcon == ChangeIcon \/ RemoveWatchApps

SpecIcon == InitIcon /\ [][NextIcon]_vars

(***************************************************************************)
(* Claims about the removal engine.                                        *)
(***************************************************************************)
\* The entry a name stands for by the contract of remove(): the name itself
\* when it is an absolute path, else the name below the package root.
NamedEntry(root, name) ==
  IF startswith(name, Slash) THEN name ELSE Join(root, name)

\* C1: remove(names...) returns False if and only if none of the named
\* entries existed before the call, and after the call none of the named
\* entries exists.
C1_RemoveReportsAndRemoves ==
  [][call'.op = "remove" =>
       LET names == call'.names
       IN /\ (result'.existed = FALSE) <=>
               (\A i \in DOMAIN names : ~exists(fs, NamedEntry(path, names[i])))
          /\ \A i \in DOMAIN names : ~exists(fs', NamedEntry(path, names[i]))]_vars

\* C2: remove is idempotent: a second remove with the same names, right
\* after the first, returns False and leaves the file system as it was.
C2_RemoveIdempotent ==
  [][(call.op = "remove" /\ call'.op = "remove" /\ call'.names = call.names) =>
       (result'.existed = FALSE /\ fs' = fs)]_vars

\* C2's case: the same names were removed twice in a row, and the first
\* call had found something to remove.
C2_RemovedTwice ==
  /\ call.op = "remove"
  /\ call.again
  /\ call.prior
  /\ call.names # <<>>

(***************************************************************************)
(* Claims about the mass operation driver and the enumeration cache.       *)
(***************************************************************************)
\* The artifacts whose capability call reported success in the last sweep:
\* the log holds the main executable's call first, then one per artifact.
ArtifactSuccesses == {i \in 2..Len(log) : log[i].ret = "True"}

Reported == call.op = "mass_operate" /\ ~result.raised

\* C3 as stated: the success count is 1 plus the number of artifacts whose
\* capability call reported success, whatever the main executable's call
\* returned.
C3_CountIsOnePlusSuccesses ==
  Reported => result.count = 1 + Cardinality(ArtifactSuccesses)

\* C3, amended: the success count is 1 if the main executable's capability
\* call reported success and 0 if it did not, plus the number of artifacts
\* whose capability call reported success.
C3_CountIsSuccesses ==
  Reported =>
    result.count = (IF log[1].ret = "True" THEN 1 ELSE 0)
                     + Cardinality(ArtifactSuccesses)

\* C3's case: a sweep in which the main executable failed, an artifact
\* failed and an artifact succeeded.
C3_MixedSweep ==
  /\ Reported
  /\ log[1].ret = "False"
  /\ \E i, j \in 2..Len(log) : log[i].ret = "True" /\ log[j].ret = "False"

\* The artifact paths the last sweep iterated, in order.
Visited == [i \in 1..(Len(log) - 1) |-> log[i + 1].arg]

IsPrefix(s, t) == Len(s) <= Len(t) /\ SubSeq(t, 1, Len(s)) = s

InitSweep == InitWith({TreeA, TreeC}, {PlistPlain}, {})

NextSweep == InjectAllExtensions \/ FakesignAll

SpecSweep == InitSweep /\ [][NextSweep]_vars

(***************************************************************************)
(* Extension injection (SpecInject).                                       *)
(***************************************************************************)
Injected == call.op = "inject_all_extensions"

\* The references the last run appended with success, as log positions.
Appended == {i \in DOMAIN log : log[i].op = "inj_func" /\ log[i].ret = "True"}

\* C5: every reference the extension injector appends under the run-path
\* strategy is free of "../../", and every reference it appends under the
\* path-relative strategy contains "../../" (tweak-set keys being file
\* names).
C5_UpUpOnlyWhenInjectToPath ==
  Injected => \A i \in Appended : In(UpUp, log[i].arg) <=> call.inject_to_path

\* C5's case: a key that starts with dots was injected with the run-path
\* strategy.
C5_DotsKeyOnRunPath ==
  /\ Injected
  /\ ~call.inject_to_path
  /\ \E i \in Appended : log[i].arg = sRpath \o KeyDots

\* The dependency name a reference ends with: what follows its strategy's
\* prefix.
DepName(ref) ==
  IF startswith(ref, sExecutablePathUp)
  THEN SubSeq(ref, Len(sExecutablePathUp) + 1, Len(ref))
  ELSE IF startswith(ref, sRpath) THEN SubSeq(ref, Len(sRpath) + 1, Len(ref))
  ELSE ref

Keys(tweaks) == {tweaks[i] : i \in DOMAIN tweaks}

DylibKeys(tweaks) == {k \in Keys(tweaks) : endswith(k, DotDylib)}

\* The executables whose references the last run flushed to the file.
Flushed == {log[i].target : i \in {j \in DOMAIN log : log[j].op = "write"
                                                       /\ log[j].ret = "True"}}

\* C6: under either strategy, every reference appended to an extension's
\* executable names a key that ends in ".dylib", never another key, and an
\* extension whose references were flushed got exactly the keys that end in
\* ".dylib".
C6_OnlyDylibKeysInjected ==
  Injected =>
    /\ \A i \in Appended : DepName(log[i].arg) \in DylibKeys(call.tweaks)
    /\ \A e \in Flushed :
         /\ {DepName(log[i].arg) : i \in {j \in Appended : log[j].target = e}}
              = DylibKeys(call.tweaks)
         /\ \A k \in Keys(call.tweaks) \ DylibKeys(call.tweaks) :
              \A n \in DOMAIN cmds[e] : DepName(cmds[e][n]) # k

\* C6's case: a tweak set with a framework and a dylib was injected into an
\* extension and flushed.
C6_MixedTweaksFlushed ==
  /\ Injected
  /\ call.tweaks = <<KeyF, KeyT>>
  /\ Flushed # {}

\* _inject_into_extension was entered for appex: it found the metadata
\* unreadable or asked the executable whether it is encrypted.
Processed(appex) ==
  \E i \in DOMAIN log :
    \/ log[i].op = "skip_unreadable" /\ log[i].target = appex
    \/ log[i].op = "is_encrypted" /\ log[i].target = ExeOf(appex)

\* C9: with inject_all, a primitive that raises on one extension affects
\* that extension only: every extension of the list is still processed by
\* _inject_into_extension.
C9_FailureIsolated ==
  Injected /\ call.inject_all =>
    \A i \in DOMAIN call.listed : Processed(call.listed[i])

(***************************************************************************)
(* The encrypted-extension filter (SpecEnc).                               *)
(***************************************************************************)
\* What the tree f holds of the bundle at dir: dir and everything below.
FilesOf(f, dir) == {q \in f : q = dir \/ IsUnder(q, dir)}

\* The plug-ins of the list whose executable reports encrypted.
EncryptedIn(f, enc, plugins) ==
  {i \in DOMAIN plugins : /\ CanConstruct(f, plugins[i])
                          /\ is_encrypted(enc, ExeOf(plugins[i]))}

\* C7: remove_encrypted_extensions removes exactly the extensions whose
\* executable reports encrypted and leaves every other extension and its
\* files as they were; the removed list holds exactly the declared
\* executable names of the removed extensions, none when none is encrypted.
C7_RemovesExactlyEncrypted ==
  [][call'.op = "remove_encrypted_extensions" =>
       LET plugins == call'.listed
           hits    == EncryptedIn(fs, encrypted, plugins)
       IN /\ \A i \in DOMAIN plugins :
               IF i \in hits THEN FilesOf(fs', plugins[i]) = {}
               ELSE FilesOf(fs', plugins[i]) = FilesOf(fs, plugins[i])
          /\ Len(result'.removed) = Cardinality(hits)
          /\ {result'.removed[n] : n \in DOMAIN result'.removed}
               = {DeclaredExecutable(plugins[i]) : i \in hits}]_vars

\* C10: remove_encrypted_extensions skips an extension whose package cannot
\* be constructed and still examines every other extension of the list,
\* removing it if it is encrypted: afterwards the operation has not raised,
\* and every listed extension that is readable was asked for its encryption
\* status and is not encrypted.
C10_UnreadableSkipped ==
  call.op = "remove_encrypted_extensions" =>
    /\ ~result.raised
    /\ \A i \in DOMAIN call.listed :
         CanConstruct(fs, call.listed[i]) =>
           /\ \E j \in DOMAIN log : /\ log[j].op = "is_encrypted"
                                    /\ log[j].target = ExeOf(call.listed[i])
           /\ ~is_encrypted(encrypted, ExeOf(call.listed[i]))

(***************************************************************************)
(* Icon replacement (SpecIcon).                                            *)
(***************************************************************************)
IconKeys == {"CFBundleIcons", "CFBundleIcons~ipad"}

\* C8: change_icon merges: every key that was under CFBundleIcons or under
\* CFBundleIcons~ipad, other than the primary-icon key, is still there with
\* its value, and every other top-level key of the document is unchanged.
C8_IconKeysMerged ==
  [][call'.op = "change_icon" =>
       /\ DOMAIN plist' \ IconKeys = DOMAIN plist \ IconKeys
       /\ \A k \in DOMAIN plist \ IconKeys : plist'[k] = plist[k]
       /\ \A top \in IconKeys \cap DOMAIN plist :
            /\ top \in DOMAIN plist'
            /\ \A k \in DOMAIN plist[top] \ {"CFBundlePrimaryIcon"} :
                 /\ k \in DOMAIN plist'[top]
                 /\ plist'[top][k] = plist[top][k]]_vars

\* C8's case: the icon was replaced in a document that declares alternate
\* icons, and the primary icon is the new one.
C8_IconReplacedBesideOthers ==
  /\ call.op = "change_icon"
  /\ call.uid # <<>>
  /\ "CFBundleIcons" \in DOMAIN plist
  /\ "CFBundleAlternateIcons" \in DOMAIN plist["CFBundleIcons"]
  /\ plist["CFBundleIcons"]["CFBundlePrimaryIcon"].CFBundleIconName = call.uid

(***************************************************************************)
(* The order of the signature-sensitive steps (SpecInject).                *)
(***************************************************************************)
\* The log positions of the calls of op made on the executable e.
Calls(op, e) == {i \in DOMAIN log : log[i].op = op /\ log[i].target = e}

\* The calls of op on e that returned.
Returned(op, e) == {i \in Calls(op, e) : log[i].ret # "raise"}

\* The executables of the extensions the last run was given.
ListedExes == {ExeOf(call.listed[i]) : i \in DOMAIN call.listed}

\* C11: on the executable of every extension that passes the gate and the
\* filter, the entitlements are extracted first, the signature is removed
\* next, the load commands are appended after that and signing, if any,
\* comes last: no signature removal without an earlier extraction, no
\* append without an earlier signature removal, no append after signing.
C11_StepsInOrder ==
  Injected =>
    \A e \in ListedExes :
      /\ \A i \in Calls("remove_signature", e) :
           \E j \in Returned("write_entitlements", e) : j < i
      /\ \A i \in Calls("inj_func", e) :
           \E j \in Returned("remove_signature", e) : j < i
      /\ \A i \in Calls("sign_with_entitlements", e) :
           /\ \A j \in Calls("inj_func", e) : j < i
           /\ \A j \in Calls("remove_signature", e) : j < i
           /\ \A j \in Calls("write_entitlements", e) : j < i
      /\ Calls("inj_func", e) # {} =>
           Cardinality(Returned("write_entitlements", e)) = 1
             /\ Cardinality(Returned("remove_signature", e)) = 1

\* C11's case: an extension went through all four steps, with two load
\* commands appended.
C11_AllFourSteps ==
  /\ Injected
  /\ \E e \in ListedExes :
       /\ Returned("sign_with_entitlements", e) # {}
       /\ Cardinality(Returned("inj_func", e)) = 2

\* The references the last run appended to e, in order.
RefsOf(e) ==
  LET at == SelectSeq([i \in DOMAIN log |-> i],
                      LAMBDA i : i \in Returned("inj_func", e))
  IN [n \in DOMAIN at |-> log[at[n]].arg]

IsSuffix(s, t) ==
  Len(s) <= Len(t) /\ SubSeq(t, Len(t) - Len(s) + 1, Len(t)) = s

\* C12: whenever sign_with_entitlements is called on an extension's
\* executable, every load command appended to it before has been flushed:
\* a flush that returned lies between each append and the signing call, and
\* the file holds the appended references.
C12_SignedAfterFlush ==
  Injected =>
    \A e \in ListedExes :
      \A i \in Calls("sign_with_entitlements", e) :
        /\ \A j \in Returned("inj_func", e) :
             \E k \in Returned("write", e) : j < k /\ k < i
        /\ IsSuffix(RefsOf(e), cmds[e])

\* C12's case: two load commands were appended to an executable and it was
\* signed.
C12_TwoAppendedThenSigned ==
  /\ Injected
  /\ \E e \in ListedExes :
       /\ Calls("sign_with_entitlements", e) # {}
       /\ Len(RefsOf(e)) = 2
       /\ Len(cmds[e]) = 2

\* The positions in the list of the extensions whose load commands the
\* last run flushed.
FlushedAt == {i \in DOMAIN call.listed : Returned("write", ExeOf(call.listed[i])) # {}}

\* What the entitlement extraction reported for e.
HadEntitlements(e) ==
  \E j \in Calls("write_entitlements", e) : log[j].ret = "True"

\* C13: after the flush, the extension's executable is signed with the side
\* file <extension root>/cyan.entitlements exactly when the entitlement
\* extraction reported entitlements; when it reported none, no signing call
\* is made and the executable stays unsigned.
C13_SignedIffEntitlements ==
  Injected =>
    \A i \in FlushedAt :
      LET appex == call.listed[i]
          e     == ExeOf(appex)
      IN /\ Calls("sign_with_entitlements", e) # {} <=> HadEntitlements(e)
         /\ \A j \in Calls("sign_with_entitlements", e) :
              log[j].arg = Join(appex, sEntitlements)
         /\ Returned("sign_with_entitlements", e) # {} => sig[e] = "entitlements"
         /\ ~HadEntitlements(e) => sig[e] = "none"

\* C13's case: one run flushed two extensions, one with entitlements, which
\* it signed, and one without, which it left unsigned.
C13_OneSignedOneUnsigned ==
  /\ Injected
  /\ \E i, j \in FlushedAt :
       /\ Returned("sign_with_entitlements", ExeOf(call.listed[i])) # {}
       /\ ~HadEntitlements(ExeOf(call.listed[j]))
       /\ sig[ExeOf(call.listed[j])] = "none"

\* The positions in the list of the extensions the last run skipped: the
\* executable reported encrypted, or it reported not encrypted and the
\* tweak set has no key ending in ".dylib".
SkippedAt(tweaks, listed, lg) ==
  {i \in DOMAIN listed :
     \E j \in DOMAIN lg :
       /\ lg[j].op = "is_encrypted"
       /\ lg[j].target = ExeOf(listed[i])
       /\ \/ lg[j].ret = "True"
          \/ lg[j].ret = "False" /\ DylibKeys(tweaks) = {}}

\* C14: an extension skipped by the gate or by the filter is left as it
\* was: no side file is written, its signature and its load commands are
\* kept and no primitive but the encryption query is called on it; the run
\* then goes on to the next extension of the list.
C14_SkippedUntouched ==
  [][call'.op = "inject_all_extensions" =>
       \A i \in SkippedAt(call'.tweaks, call'.listed, log') :
         LET appex == call'.listed[i]
             e     == ExeOf(appex)
         IN /\ FilesOf(fs', appex) = FilesOf(fs, appex)
            /\ sig'[e] = sig[e]
            /\ cmds'[e] = cmds[e]
            /\ \A j \in DOMAIN log' :
                 log'[j].target = e => log'[j].op = "is_encrypted"
            /\ i < Len(call'.listed) =>
                 \E j \in DOMAIN log' :
                   \/ log'[j].op = "skip_unreadable"
                        /\ log'[j].target = call'.listed[i + 1]
                   \/ log'[j].op = "is_encrypted"
                        /\ log'[j].target = ExeOf(call'.listed[i + 1])]_vars

\* C14's case: the run skipped an encrypted extension and then injected
\* into the next one.
C14_SkippedThenInjected ==
  /\ Injected
  /\ \E i \in SkippedAt(call.tweaks, call.listed, log) :
       /\ is_encrypted(encrypted, ExeOf(call.listed[i]))
       /\ i < Len(call.listed)
       /\ i + 1 \in FlushedAt

(***************************************************************************)
(* The order of a mass_operate sweep (SpecMass).                           *)
(***************************************************************************)
\* The executable mass_operate operates on for the artifact ts.
ArtifactExe(ts) ==
  IF endswith(ts, DotDylib) THEN ts ELSE Join(ts, DeclaredExecutable(ts))

\* The sweep called the capability on the main executable first and then
\* once on the executable of each of the first n cached artifacts, in cache
\* order, and made no other call.
SweptFirst(n) ==
  /\ Len(log) = n + 1
  /\ log[1].op = call.func /\ log[1].target = MainExe
  /\ \A i \in 1..n :
       /\ log[i + 1].op = call.func
       /\ log[i + 1].arg = Value(cached_executables)[i]
       /\ log[i + 1].target = ArtifactExe(Value(cached_executables)[i])

\* C15 as stated: every mass_operate calls the capability on the main
\* executable first and then exactly once on the executable of every
\* cached artifact, in cache order.
C15_SweepsWholeCache ==
  call.op = "mass_operate" => SweptFirst(Len(Value(cached_executables)))

\* C15, amended: a mass_operate that is not ended by a nested metadata
\* document that cannot be read calls the capability on the main executable
\* first and then exactly once on the executable of every cached artifact,
\* in cache order, whatever the calls return.
C15_SweepsWholeCacheUnlessRaised ==
  Reported => SweptFirst(Len(Value(cached_executables)))

\* C15's case: the main executable's call and an artifact's call failed and
\* a later artifact was operated on with success.
C15_SweepGoesOnAfterFailure ==
  /\ Reported
  /\ log[1].ret = "False"
  /\ \E i, j \in 2..Len(log) : i < j /\ log[i].ret = "False" /\ log[j].ret = "True"

\* The positions in the cache of the artifacts that are not dylibs and
\* whose nested metadata document is not in the tree.
Unreadable ==
  {i \in DOMAIN Value(cached_executables) :
     /\ ~endswith(Value(cached_executables)[i], DotDylib)
     /\ ~exists(fs, Join(Value(cached_executables)[i], sInfoPlist))}

First(S) == CHOOSE i \in S : \A j \in S : i <= j

\* C19: a mass_operate that comes to a cached artifact, not a dylib, whose
\* nested metadata document cannot be read ends there with the error: the
\* artifacts before it were operated on, none after it is, and no success
\* count is reported; without such an artifact the sweep does not raise.
C19_UnreadableNestedAborts ==
  call.op = "mass_operate" =>
    IF Unreadable = {} THEN ~result.raised
    ELSE LET k == First(Unreadable)
         IN /\ result.raised
            /\ result.count = -1
            /\ result.message = ""
            /\ Len(log) = k + 1
            /\ log[k + 1].op = "Plist" /\ log[k + 1].ret = "raise"
            /\ log[k + 1].arg = Value(cached_executables)[k]
            /\ \A i \in 1..(k - 1) :
                 /\ log[i + 1].op = call.func
                 /\ log[i + 1].arg = Value(cached_executables)[i]

\* C19's case: the sweep operated on an artifact, then came to one removed
\* since the cache was populated, and an artifact after that one was left
\* out.
C19_AbortedMidSweep ==
  /\ call.op = "mass_operate"
  /\ result.raised
  /\ Len(log) > 2
  /\ Len(log) < Len(Value(cached_executables)) + 1

(***************************************************************************)
(* Name resolution in remove (SpecRemove).                                 *)
(***************************************************************************)
\* The tree left when each name is resolved as NamedEntry resolves it and
\* what is found there is deleted.
RECURSIVE DeleteNamed(_, _, _)
DeleteNamed(root, names, f) ==
  IF names = <<>> THEN f
  ELSE DeleteNamed(root, Tail(names), rmtree(f, NamedEntry(root, Head(names))))

\* C16: remove deletes what its names resolve to when an absolute name is
\* used as it is and every other name is resolved against the package
\* root, never against anything else.
C16_ResolvesAgainstRoot ==
  [][call'.op = "remove" => fs' = DeleteNamed(path, call'.names, fs)]_vars

(***************************************************************************)
(* Where the encrypted-extension filter looks (SpecEnc).                   *)
(***************************************************************************)
ExtensionDirs == {Join(Root, sExtensions), Join(Root, sPlugIns)}

\* Everything the tree holds outside the two extension directories.
OutsideExtensionDirs(f) ==
  {q \in f : \A d \in ExtensionDirs : q # d /\ ~IsUnder(q, d)}

\* C17: remove_encrypted_extensions examines and removes only extensions
\* directly inside <root>/Extensions and <root>/PlugIns: it lists no other
\* .appex, asks no other executable for its encryption status and leaves
\* everything outside the two directories in place.
C17_OnlyExtensionDirs ==
  [][call'.op = "remove_encrypted_extensions" =>
       /\ \A i \in DOMAIN call'.listed :
            \E d \in ExtensionDirs : IsUnder(call'.listed[i], d)
       /\ \A j \in DOMAIN log' :
            \E d \in ExtensionDirs : IsUnder(log'[j].target, d)
       /\ OutsideExtensionDirs(fs') = OutsideExtensionDirs(fs)]_vars

(***************************************************************************)
(* What inject_all_extensions touches (SpecInject).                        *)
(***************************************************************************)
\* C20: inject_all_extensions injects into the main executable first, once,
\* before any call on an extension; when inject_all is false or no
\* extension is under Extensions/ or PlugIns/, no extension executable is
\* queried or modified; and the enumeration cache stays unpopulated.
C20_MainFirstAndCacheUntouched ==
  [][call'.op = "inject_all_extensions" =>
       /\ Len(log') >= 1
       /\ log'[1].op = "inject" /\ log'[1].target = MainExe
       /\ \A j \in 2..Len(log') : log'[j].op # "inject"
       /\ (~call'.inject_all \/ get_all_appex(fs, path) = {<<>>}) =>
            /\ \A j \in 2..Len(log') : log'[j].op = "no_extensions"
            /\ fs' = fs /\ sig' = sig /\ cmds' = cmds
       /\ cached_executables = None => cached_executables' = None
       /\ cached_executables' = cached_executables]_vars

\* C20's case: the tweak set has a dylib and the package has extensions,
\* and inject_all was false.
C20_ExtensionsLeftAlone ==
  /\ Injected
  /\ ~call.inject_all
  /\ DylibKeys(call.tweaks) # {}
  /\ get_all_appex(fs, path) # {<<>>}
  /\ cached_executables = None

(***************************************************************************)
(* Injection, then the signing sweep (SpecSweep).                          *)
(***************************************************************************)
\* fakesign_all follows an inject_all_extensions run over the extensions,
\* the enumeration cache not yet populated.
SweepAfterInjection ==
  /\ call.op = "inject_all_extensions"
  /\ call.inject_all
  /\ cached_executables = None
  /\ call'.op = "mass_operate"
  /\ call'.func = "fakesign"

\* The sweep called fakesign on e, and e is fake-signed if the call
\* succeeded.
Fakesigned(e) ==
  \E j \in DOMAIN log' :
    /\ log'[j].op = "fakesign"
    /\ log'[j].target = e
    /\ log'[j].ret = "True" => sig'[e] = "fake"

\* C18 as stated: fakesign_all after inject_all_extensions, the cache not
\* yet populated, applies fakesign to the executable of every extension
\* that was injected.
C18_InjectedAreFakesigned ==
  [][SweepAfterInjection =>
       \A i \in FlushedAt : Fakesigned(ExeOf(call.listed[i]))]_vars

\* C18, amended: the same, for a sweep that is not ended by a nested
\* metadata document that cannot be read.
C18_InjectedAreFakesignedUnlessRaised ==
  [][SweepAfterInjection /\ ~result'.raised =>
       \A i \in FlushedAt : Fakesigned(ExeOf(call.listed[i]))]_vars

\* C18's case: an extension that the injector left unsigned, having no
\* entitlements, carries the injected load commands and a fake signature
\* after the sweep.
C18_UnsignedGotFakeSignature ==
  /\ Reported
  /\ call.func = "fakesign"
  /\ cmds[ExeOf(AppexA)] # <<>>
  /\ sig[ExeOf(AppexA)] = "fake"
  /\ ~exists(fs, Join(AppexA, sEntitlements))

====
